---- MODULE Spec2Model ----
(***************************************************************************)
(* Developer-token issuance of tuffahi (src-tauri): credential resolution  *)
(* from the process environment (MusicKitConfig::from_env), token signing  *)
(* (generate_developer_token), the placeholder (generate_demo_token) and   *)
(* the three commands built on the process-wide OnceLock DEVELOPER_TOKEN   *)
(* (get_developer_token, refresh_developer_token, is_musickit_configured). *)
(***************************************************************************)
EXTENDS Integers, Sequences, FiniteSets, TLC

\* ------------------------------------------------------------------ bounds
\* number of threads that may call the commands
NumProcs == 2
\* the clock runs from 0 to MaxTicks ticks
MaxTicks == 2
\* resolution of the clock: ticks in one second
TicksPerSecond == 2
\* number of calls of generate_developer_token the model follows
MaxSigns == 2

\* --------------------------------------------------------------- constants
\* Duration::days(180)
TokenDays == 180
SecondsPerDay == 86400

\* ------------------------------------------------------------ environment
\* What the process environment holds for one variable: nothing, bytes that
\* are not valid Unicode, or a string.
Unset == "<unset>"
NotUnicode == "<not-unicode>"

\* Key material, by what the PKCS#8 parser and the JWT encoder make of it.
ValidPem == "pem:p256"
MalformedPem == "pem:malformed"
UnencodablePem == "pem:unencodable"
Pems == {ValidPem, MalformedPem, UnencodablePem}

\* The file at APPLE_PRIVATE_KEY_PATH: absent (or unreadable), or its text.
NoFile == "<no-file>"
Files == {NoFile} \cup Pems

KeyPath == "/keys/AuthKey.p8"

TeamVals == {Unset, NotUnicode, "", "ABC123"}
KeyIdVals == {Unset, NotUnicode, "", "KEY1"}
PathVals == {Unset, NotUnicode, KeyPath}
ContentVals == {Unset, NotUnicode} \cup Pems

\* every environment: the four APPLE_* variables
Envs ==
    [APPLE_TEAM_ID : TeamVals, APPLE_KEY_ID : KeyIdVals,
     APPLE_PRIVATE_KEY_PATH : PathVals, APPLE_PRIVATE_KEY : ContentVals]

\* the environments the command specifications start from and switch between
CmdEnvs ==
    [APPLE_TEAM_ID : {Unset, "ABC123"}, APPLE_KEY_ID : {"KEY1"},
     APPLE_PRIVATE_KEY_PATH : {Unset, KeyPath},
     APPLE_PRIVATE_KEY : {Unset, ValidPem, MalformedPem}]

Procs == 1..NumProcs
\* the random nonces an ECDSA signature may be drawn with
Nonces == {"k1", "k2"}

\* ------------------------------------------------------ Result and Option
Ok(v) == [ok |-> TRUE, val |-> v]
Err(e) == [ok |-> FALSE, val |-> e]
None == <<>>
Some(v) == <<v>>
\* a bool handed to the caller
Bool(b) == <<"bool", b>>

\* ---------------------------------------------------------------- errors
\* TokenError variants with their payload
KeyReadError(d) == [kind |-> "KeyReadError", detail |-> d]
InvalidKey(d) == [kind |-> "InvalidKey", detail |-> d]
EncodingError(d) == [kind |-> "EncodingError", detail |-> d]
ConfigMissing(d) == [kind |-> "ConfigMissing", detail |-> d]

\* #[error("...: {0}")]: the Display text of a TokenError, as the pieces it is
\* put together from
Display(e) ==
    CASE e.kind = "KeyNotFound" -> <<"Private key file not found", ": ", e.detail>>
      [] e.kind = "KeyReadError" -> <<"Failed to read private key", ": ", e.detail>>
      [] e.kind = "InvalidKey" -> <<"Invalid private key format", ": ", e.detail>>
      [] e.kind = "EncodingError" -> <<"JWT encoding failed", ": ", e.detail>>
      [] e.kind = "ConfigMissing" -> <<"Configuration missing", ": ", e.detail>>

\* std::env::var: Err when the variable is unset or is not valid Unicode
env_var(e, name) ==
    IF e[name] \in {Unset, NotUnicode} THEN Err(e[name]) ELSE Ok(e[name])

\* Result::ok
ok_of(r) == IF r.ok THEN Some(r.val) ELSE None

\* ------------------------------------------------------ MusicKitConfig
\* a from_env that wants both key sources
from_env_both_sources(e) ==
    LET team == env_var(e, "APPLE_TEAM_ID")
        key == env_var(e, "APPLE_KEY_ID")
        private_key_path == ok_of(env_var(e, "APPLE_PRIVATE_KEY_PATH"))
        private_key_content == ok_of(env_var(e, "APPLE_PRIVATE_KEY"))
    IN  IF ~team.ok THEN Err(ConfigMissing("APPLE_TEAM_ID"))
        ELSE IF ~key.ok THEN Err(ConfigMissing("APPLE_KEY_ID"))
        ELSE IF private_key_path = None \/ private_key_content = None
             THEN Err(ConfigMissing("APPLE_PRIVATE_KEY_PATH or APPLE_PRIVATE_KEY"))
        ELSE Ok([team_id |-> team.val, key_id |-> key.val,
                 private_key_path |-> private_key_path,
                 private_key_content |-> private_key_content])

\* a from_env that does not look for a key source
from_env_any_sources(e) ==
    LET team == env_var(e, "APPLE_TEAM_ID")
        key == env_var(e, "APPLE_KEY_ID")
        private_key_path == ok_of(env_var(e, "APPLE_PRIVATE_KEY_PATH"))
        private_key_content == ok_of(env_var(e, "APPLE_PRIVATE_KEY"))
    IN  IF ~team.ok THEN Err(ConfigMissing("APPLE_TEAM_ID"))
        ELSE IF ~key.ok THEN Err(ConfigMissing("APPLE_KEY_ID"))
        ELSE Ok([team_id |-> team.val, key_id |-> key.val,
                 private_key_path |-> private_key_path,
                 private_key_content |-> private_key_content])

\* a from_env that takes an empty identifier for a missing one
from_env_rejecting_empty(e) ==
    LET team == env_var(e, "APPLE_TEAM_ID")
        key == env_var(e, "APPLE_KEY_ID")
        private_key_path == ok_of(env_var(e, "APPLE_PRIVATE_KEY_PATH"))
        private_key_content == ok_of(env_var(e, "APPLE_PRIVATE_KEY"))
    IN  IF ~team.ok \/ team.val = "" THEN Err(ConfigMissing("APPLE_TEAM_ID"))
        ELSE IF ~key.ok \/ key.val = "" THEN Err(ConfigMissing("APPLE_KEY_ID"))
        ELSE IF private_key_path = None /\ private_key_content = None
             THEN Err(ConfigMissing("APPLE_PRIVATE_KEY_PATH or APPLE_PRIVATE_KEY"))
        ELSE Ok([team_id |-> team.val, key_id |-> key.val,
                 private_key_path |-> private_key_path,
                 private_key_content |-> private_key_content])

\* a from_env that looks for the key id before the team id
from_env_key_id_first(e) ==
    LET team == env_var(e, "APPLE_TEAM_ID")
        key == env_var(e, "APPLE_KEY_ID")
        private_key_path == ok_of(env_var(e, "APPLE_PRIVATE_KEY_PATH"))
        private_key_content == ok_of(env_var(e, "APPLE_PRIVATE_KEY"))
    IN  IF ~key.ok THEN Err(ConfigMissing("APPLE_KEY_ID"))
        ELSE IF ~team.ok THEN Err(ConfigMissing("APPLE_TEAM_ID"))
        ELSE IF private_key_path = None /\ private_key_content = None
             THEN Err(ConfigMissing("APPLE_PRIVATE_KEY_PATH or APPLE_PRIVATE_KEY"))
        ELSE Ok([team_id |-> team.val, key_id |-> key.val,
                 private_key_path |-> private_key_path,
                 private_key_content |-> private_key_content])

\* MusicKitConfig::from_env on the environment e
from_env(e) ==
    LET team == env_var(e, "APPLE_TEAM_ID")
        key == env_var(e, "APPLE_KEY_ID")
        private_key_path == ok_of(env_var(e, "APPLE_PRIVATE_KEY_PATH"))
        private_key_content == ok_of(env_var(e, "APPLE_PRIVATE_KEY"))
    IN  IF ~team.ok THEN Err(ConfigMissing("APPLE_TEAM_ID"))
        ELSE IF ~key.ok THEN Err(ConfigMissing("APPLE_KEY_ID"))
        ELSE IF private_key_path = None /\ private_key_content = None
             THEN Err(ConfigMissing("APPLE_PRIVATE_KEY_PATH or APPLE_PRIVATE_KEY"))
        ELSE Ok([team_id |-> team.val, key_id |-> key.val,
                 private_key_path |-> private_key_path,
                 private_key_content |-> private_key_content])

\* fs::read_to_string of the key file, f being what the file system holds
read_to_string(f) ==
    IF f = NoFile THEN Err("io: No such file or directory") ELSE Ok(f)

\* a get_private_key that looks at the path first
get_private_key_path_first(config, f) ==
    IF config.private_key_path # None
    THEN LET r == read_to_string(f)
         IN  [key |-> IF r.ok THEN r ELSE Err(KeyReadError(r.val)), read |-> TRUE]
    ELSE IF config.private_key_content # None
    THEN [key |-> Ok(config.private_key_content[1]), read |-> FALSE]
    ELSE [key |-> Err(ConfigMissing("Private key")), read |-> FALSE]

\* get_private_key: [key |-> the Result, read |-> whether the file was read]
get_private_key(config, f) ==
    IF config.private_key_content # None
    THEN [key |-> Ok(config.private_key_content[1]), read |-> FALSE]
    ELSE IF config.private_key_path # None
    THEN LET r == read_to_string(f)
         IN  [key |-> IF r.ok THEN r ELSE Err(KeyReadError(r.val)), read |-> TRUE]
    ELSE [key |-> Err(ConfigMissing("Private key")), read |-> FALSE]

\* parse_private_key: SigningKey::from_pkcs8_pem
parse_private_key(pem) ==
    IF pem = MalformedPem THEN Err(InvalidKey("pkcs8")) ELSE Ok(pem)

\* DateTime::timestamp: whole seconds of a time t given in ticks
timestamp(t) == t \div TicksPerSecond

\* Duration::days(d), in ticks
duration_days(d) == d * SecondsPerDay * TicksPerSecond

\* now + Duration::days(180)
expiration(t) == t + duration_days(TokenDays)

\* Claims whose expiry is taken from a second reading of the clock, one tick on
make_claims_second_reading(config, t) ==
    [iss |-> config.team_id, iat |-> timestamp(t), exp |-> timestamp(expiration(t + 1))]

\* the Claims built at time t for config
make_claims(config, t) ==
    [iss |-> config.team_id, iat |-> timestamp(t), exp |-> timestamp(expiration(t))]

\* jsonwebtoken::encode: header.claims.signature, or an error for a key the
\* encoder rejects
encode(header, claims, pem, nonce) ==
    IF pem = UnencodablePem THEN Err(EncodingError("InvalidEcdsaKey"))
    ELSE Ok(<<header, claims, [key |-> pem, nonce |-> nonce]>>)

\* generate_developer_token at time t, the file system holding f, the signature
\* drawn with nonce: [res |-> the Result, read |-> whether the key file was read]
generate_developer_token(config, f, t, nonce) ==
    LET k == get_private_key(config, f)
    IN  IF ~k.key.ok THEN [res |-> k.key, read |-> k.read]
        ELSE LET signing_key == parse_private_key(k.key.val)
             IN  IF ~signing_key.ok THEN [res |-> signing_key, read |-> k.read]
                 ELSE [res |-> encode([alg |-> "ES256", kid |-> config.key_id],
                                      make_claims(config, t), signing_key.val, nonce),
                       read |-> k.read]

\* generate_demo_token
generate_demo_token == <<"DEMO_TOKEN_REPLACE_WITH_REAL_TOKEN">>

\* ------------------------------------------------------------------ state
VARIABLES
    env,        \* the process environment (the four APPLE_* variables)
    file,       \* what the file system holds at KeyPath
    now,        \* the clock, in ticks
    cache,      \* DEVELOPER_TOKEN: None or Some(token)
    pc,         \* per thread: "idle", or where it is in get_developer_token
    token,      \* per thread: the local `token` of get_developer_token
    signs,      \* calls of generate_developer_token so far
    reads,      \* reads of the key file so far
    last,       \* the most recent return: [op, ok, val, hit], hit telling a
                \* get_developer_token that returned the cached token
    lastGet     \* what the most recent get_developer_token returned (None: none yet)

vars == <<env, file, now, cache, pc, token, signs, reads, last, lastGet>>

Quiet == \A q \in Procs : pc[q] = "idle"

InitWith(envs) ==
    /\ env \in envs
    /\ file \in Files
    /\ now = 0
    /\ cache = None
    /\ pc = [p \in Procs |-> "idle"]
    /\ token = [p \in Procs |-> None]
    /\ signs = 0
    /\ reads = 0
    /\ last = [op |-> "none", ok |-> TRUE, val |-> None, hit |-> FALSE]
    /\ lastGet = None

\* the process starts with an empty cache, in one of the command environments
Init == InitWith(CmdEnvs)

\* the process starts with an empty cache, in any environment
InitEnv == InitWith(Envs)

\* ------------------------------------------------------------ the commands
\* what a command returned to its caller
Returned(op, r, hit) == [op |-> op, ok |-> r.ok, val |-> r.val, hit |-> hit]

\* a get that does not count a cached demo token as a hit
once_get_skip_demo(c) == IF c = Some(<<"DEMO_TOKEN_REPLACE_WITH_REAL_TOKEN">>) THEN <<>> ELSE c

\* OnceLock::get
once_get(c) == c

\* a cell that every set overwrites
once_set_overwrite(c, v) == Some(v)

\* OnceLock::set: stores v in an empty cell, leaves a full cell as it is
once_set(c, v) == IF c = None THEN Some(v) ELSE c

\* a cache check behind a lock that a caller holds while it generates its token
GetCheckLocked(p) ==
    /\ pc[p] = "idle"
    /\ \A q \in Procs : pc[q] # "generate"
    /\ IF once_get(cache) # None
       THEN /\ last' = Returned("get_developer_token", Ok(once_get(cache)[1]), TRUE)
            /\ lastGet' = once_get(cache)
            /\ pc' = pc
       ELSE /\ pc' = [pc EXCEPT ![p] = "generate"]
            /\ UNCHANGED <<last, lastGet>>
    /\ UNCHANGED <<env, file, now, cache, token, signs, reads>>

\* get_developer_token, the cache check: a hit returns the cached token, a miss
\* goes on to generate one
GetCheck(p) ==
    /\ pc[p] = "idle"
    /\ IF once_get(cache) # None
       THEN /\ last' = Returned("get_developer_token", Ok(once_get(cache)[1]), TRUE)
            /\ lastGet' = once_get(cache)
            /\ pc' = pc
       ELSE /\ pc' = [pc EXCEPT ![p] = "generate"]
            /\ UNCHANGED <<last, lastGet>>
    /\ UNCHANGED <<env, file, now, cache, token, signs, reads>>

\* a get_developer_token that caches nothing better than the demo token once
\* signing has failed, and hands out the error text instead
get_outcome_error_text(e, f, t, nonce) ==
    LET config == from_env(e)
    IN  IF config.ok
        THEN LET g == generate_developer_token(config.val, f, t, nonce)
             IN  [val |-> IF g.res.ok THEN g.res.val ELSE Display(g.res.val),
                  signed |-> TRUE, read |-> g.read]
        ELSE [val |-> generate_demo_token, signed |-> FALSE, read |-> FALSE]

\* the match of get_developer_token: the signed token, or the demo token when
\* from_env or generate_developer_token fails;
\* [val |-> the token, signed |-> generate_developer_token ran, read |-> it read the file]
get_outcome(e, f, t, nonce) ==
    LET config == from_env(e)
    IN  IF config.ok
        THEN LET g == generate_developer_token(config.val, f, t, nonce)
             IN  [val |-> IF g.res.ok THEN g.res.val ELSE generate_demo_token,
                  signed |-> TRUE, read |-> g.read]
        ELSE [val |-> generate_demo_token, signed |-> FALSE, read |-> FALSE]

\* get_developer_token after a miss: from_env, generate_developer_token, fallback
GetGenerate(p) ==
    /\ pc[p] = "generate"
    /\ \E nonce \in Nonces :
         LET o == get_outcome(env, file, now, nonce)
         IN  /\ o.signed => signs < MaxSigns
             /\ token' = [token EXCEPT ![p] = Some(o.val)]
             /\ signs' = signs + (IF o.signed THEN 1 ELSE 0)
             /\ reads' = reads + (IF o.read THEN 1 ELSE 0)
    /\ pc' = [pc EXCEPT ![p] = "set"]
    /\ UNCHANGED <<env, file, now, cache, last, lastGet>>

\* get_developer_token, the end: DEVELOPER_TOKEN.set(token.clone()), Ok(token)
GetSet(p) ==
    /\ pc[p] = "set"
    /\ cache' = once_set(cache, token[p][1])
    /\ last' = Returned("get_developer_token", Ok(token[p][1]), FALSE)
    /\ lastGet' = token[p]
    /\ pc' = [pc EXCEPT ![p] = "idle"]
    /\ token' = [token EXCEPT ![p] = None]
    /\ UNCHANGED <<env, file, now, signs, reads>>

\* format!("Configuration error: {}", e)
config_error(e) == <<"Configuration error: ">> \o Display(e)

\* format!("Failed to generate token: {}", e)
generate_error(e) == <<"Failed to generate token: ">> \o Display(e)

\* a refresh_developer_token that reports every failure as a configuration error
\* without the error's own text
refresh_outcome_masked(e, f, t, nonce) ==
    LET config == from_env(e)
    IN  IF config.ok
        THEN LET g == generate_developer_token(config.val, f, t, nonce)
             IN  [res |-> IF g.res.ok THEN g.res
                          ELSE Err(<<"Configuration error: ", "token generation failed">>),
                  signed |-> TRUE, read |-> g.read]
        ELSE [res |-> Err(config_error(config.val)), signed |-> FALSE, read |-> FALSE]

\* the match of refresh_developer_token:
\* [res |-> the Result, signed |-> generate_developer_token ran, read |-> it read the file]
refresh_outcome(e, f, t, nonce) ==
    LET config == from_env(e)
    IN  IF config.ok
        THEN LET g == generate_developer_token(config.val, f, t, nonce)
             IN  [res |-> IF g.res.ok THEN g.res ELSE Err(generate_error(g.res.val)),
                  signed |-> TRUE, read |-> g.read]
        ELSE [res |-> Err(config_error(config.val)), signed |-> FALSE, read |-> FALSE]

\* a refresh_developer_token that falls back to the demo token as
\* get_developer_token does, and stores what it returns
RefreshStoring(p) ==
    /\ pc[p] = "idle"
    /\ \E nonce \in Nonces :
         LET o == get_outcome(env, file, now, nonce)
         IN  /\ o.signed => signs < MaxSigns
             /\ last' = Returned("refresh_developer_token", Ok(o.val), FALSE)
             /\ cache' = Some(o.val)
             /\ signs' = signs + (IF o.signed THEN 1 ELSE 0)
             /\ reads' = reads + (IF o.read THEN 1 ELSE 0)
    /\ UNCHANGED <<env, file, now, pc, token, lastGet>>

\* refresh_developer_token: DEVELOPER_TOKEN is neither read nor written
Refresh(p) ==
    /\ pc[p] = "idle"
    /\ \E nonce \in Nonces :
         LET o == refresh_outcome(env, file, now, nonce)
         IN  /\ o.signed => signs < MaxSigns
             /\ last' = Returned("refresh_developer_token", o.res, FALSE)
             /\ signs' = signs + (IF o.signed THEN 1 ELSE 0)
             /\ reads' = reads + (IF o.read THEN 1 ELSE 0)
    /\ UNCHANGED <<env, file, now, cache, pc, token, lastGet>>

\* an is_musickit_configured that asks get_developer_token's machinery: it signs
\* a token to see whether that works, and caches it
IsConfiguredProbing(p) ==
    /\ pc[p] = "idle"
    /\ \E nonce \in Nonces :
         LET o == get_outcome(env, file, now, nonce)
         IN  /\ o.signed => signs < MaxSigns
             /\ last' = Returned("is_musickit_configured", Ok(Bool(from_env(env).ok)), FALSE)
             /\ cache' = once_set(cache, o.val)
             /\ signs' = signs + (IF o.signed THEN 1 ELSE 0)
             /\ reads' = reads + (IF o.read THEN 1 ELSE 0)
    /\ UNCHANGED <<env, file, now, pc, token, lastGet>>

\* an is_musickit_configured whose from_env looks at the key file when only a
\* path is given
IsConfiguredReading(p) ==
    /\ pc[p] = "idle"
    /\ LET config == from_env(env)
           looks == config.ok /\ config.val.private_key_content = None
       IN  /\ last' = Returned("is_musickit_configured",
                               Ok(Bool(config.ok /\ (looks => read_to_string(file).ok))),
                               FALSE)
           /\ reads' = reads + (IF looks THEN 1 ELSE 0)
    /\ UNCHANGED <<env, file, now, cache, pc, token, signs, lastGet>>

\* is_musickit_configured
IsConfigured(p) ==
    /\ pc[p] = "idle"
    /\ last' = Returned("is_musickit_configured", Ok(Bool(from_env(env).ok)), FALSE)
    /\ UNCHANGED <<env, file, now, cache, pc, token, signs, reads, lastGet>>

\* -------------------------------------------------------- the surroundings
\* the clock advances
Tick ==
    /\ now < MaxTicks
    /\ now' = now + 1
    /\ UNCHANGED <<env, file, cache, pc, token, signs, reads, last, lastGet>>

\* the environment is changed between calls
EnvChange ==
    /\ Quiet
    /\ \E e \in CmdEnvs : e # env /\ env' = e
    /\ UNCHANGED <<file, now, cache, pc, token, signs, reads, last, lastGet>>

\* the key file is written, replaced or removed
FileChange ==
    /\ \E f \in Files : f # file /\ file' = f
    /\ UNCHANGED <<env, now, cache, pc, token, signs, reads, last, lastGet>>

\* --------------------------------------------------------- specifications
\* the commands called from any thread at any time, in a fixed environment
Next ==
    \/ \E p \in Procs : GetCheck(p)
    \/ \E p \in Procs : GetGenerate(p)
    \/ \E p \in Procs : GetSet(p)
    \/ \E p \in Procs : Refresh(p)
    \/ \E p \in Procs : IsConfigured(p)
    \/ Tick
    \/ FileChange

Spec == Init /\ [][Next]_vars

\* the commands called one after the other (a call starts when none is running),
\* the environment changing between calls
NextSeq ==
    \/ \E p \in Procs : Quiet /\ GetCheck(p)
    \/ \E p \in Procs : GetGenerate(p)
    \/ \E p \in Procs : GetSet(p)
    \/ \E p \in Procs : Quiet /\ Refresh(p)
    \/ \E p \in Procs : Quiet /\ IsConfigured(p)
    \/ Tick
    \/ EnvChange
    \/ FileChange

SpecSeq == Init /\ [][NextSeq]_vars

\* get_developer_token and is_musickit_configured called from any thread,
\* refresh_developer_token never
NextNoRefresh ==
    \/ \E p \in Procs : GetCheck(p)
    \/ \E p \in Procs : GetGenerate(p)
    \/ \E p \in Procs : GetSet(p)
    \/ \E p \in Procs : IsConfigured(p)
    \/ Tick
    \/ FileChange

SpecNoRefresh == Init /\ [][NextNoRefresh]_vars

\* the two commands that leave the cache alone, in every environment
NextEnv ==
    \/ \E p \in Procs : Refresh(p)
    \/ \E p \in Procs : IsConfigured(p)
    \/ Tick
    \/ FileChange

SpecEnv == InitEnv /\ [][NextEnv]_vars

\* the signings the model still follows cover the calls in progress and one more
SignsLeft == signs + Cardinality({q \in Procs : pc[q] = "generate"}) < MaxSigns

\* the commands called from any thread at any time, with the key file and the
\* clock reading as the process found them; a call is started only when the
\* model can follow it to its end
NextLive ==
    \/ \E p \in Procs : (cache # None \/ SignsLeft) /\ GetCheck(p)
    \/ \E p \in Procs : GetGenerate(p)
    \/ \E p \in Procs : GetSet(p)
    \/ \E p \in Procs : SignsLeft /\ Refresh(p)
    \/ \E p \in Procs : IsConfigured(p)

\* a thread that is inside get_developer_token keeps running: the scheduler
\* does not starve it
Fairness == \A p \in Procs : WF_vars(GetGenerate(p)) /\ WF_vars(GetSet(p))

SpecLive == Init /\ [][NextLive]_vars /\ Fairness

\* ------------------------------------------------------------------ claims
\* a get_developer_token call of thread p returns at this step
GetReturns(p) == (GetCheck(p) /\ cache # None) \/ GetSet(p)

\* a three-segment token, as opposed to the demo token
IsSigned(tok) == Len(tok) = 3

\* C1 (as claimed): when refresh_developer_token has succeeded and returned a
\* token T, the get_developer_token call that returns next returns T.
C1_GetReturnsRefreshedToken ==
    [][\A p \in Procs :
         (GetReturns(p) /\ last.op = "refresh_developer_token" /\ last.ok) =>
           last'.val = last.val]_vars

\* C2 (as claimed): with no refresh requested, generate_developer_token runs at
\* most once in the life of the process, however the get_developer_token calls
\* interleave.
C2_SignsAtMostOnce == signs <= 1

\* C3: a get_developer_token call returns what the get_developer_token call
\* before it returned, whatever that was and whatever the environment, the key
\* file and the clock have become since.
C3_GetIdempotent ==
    [][\A p \in Procs : (GetReturns(p) /\ lastGet # None) => lastGet' = lastGet]_vars

\* C3 witness: a call answered from the cache returned the demo token although
\* the environment now holds a complete configuration with a valid inline key.
C3_Witness ==
    /\ last.op = "get_developer_token" /\ last.hit
    /\ last.val = generate_demo_token
    /\ from_env(env).ok /\ env.APPLE_PRIVATE_KEY = ValidPem

\* whether generate_developer_token succeeds for config in the present state
SignSucceeds(config) ==
    \E n \in Nonces : generate_developer_token(config, file, now, n).res.ok

RefreshFails ==
    \/ ~from_env(env).ok
    \/ ~SignSucceeds(from_env(env).val)

FailingStepError ==
    IF ~from_env(env).ok THEN from_env(env).val
    ELSE generate_developer_token(from_env(env).val, file, now, "k1").res.val

\* C6 (as claimed): what a failed refresh_developer_token hands to its caller is
\* the text of the failing step's error and nothing else.
C6_ErrorReturnedVerbatim ==
    [][\A p \in Procs : (Refresh(p) /\ RefreshFails) =>
         last'.val = Display(FailingStepError)]_vars

\* C6 (amended): what a failed refresh_developer_token hands to its caller is
\* the text of the failing step's error, unaltered, after the prefix
\* "Configuration error: " when from_env failed and "Failed to generate token: "
\* when generate_developer_token failed; the error is a ConfigMissing naming a
\* variable, a KeyReadError, an InvalidKey or an EncodingError.
C6_ErrorReturnedPrefixed ==
    [][\A p \in Procs : (Refresh(p) /\ RefreshFails) =>
         /\ ~last'.ok
         /\ last'.val =
              <<IF from_env(env).ok THEN "Failed to generate token: "
                ELSE "Configuration error: ">> \o Display(FailingStepError)
         /\ IF from_env(env).ok
            THEN FailingStepError.kind \in {"KeyReadError", "InvalidKey", "EncodingError"}
            ELSE FailingStepError.kind = "ConfigMissing"]_vars

\* C6 witness: a refresh has failed in generate_developer_token on a key the
\* parser rejects.
C6_Witness ==
    /\ last.op = "refresh_developer_token" /\ ~last.ok
    /\ last.val = <<"Failed to generate token: ", "Invalid private key format", ": ", "pkcs8">>

\* C7: is_musickit_configured returns whether from_env succeeds on the present
\* environment, and leaves the cache, the count of signings and the count of
\* key-file reads as they were.
C7_IsConfiguredPure ==
    [][\A p \in Procs : IsConfigured(p) =>
         /\ last'.op = "is_musickit_configured" /\ last'.ok
         /\ last'.val = Bool(from_env(env).ok)
         /\ cache' = cache /\ signs' = signs /\ reads' = reads]_vars

\* C7 witness: is_musickit_configured has returned true while the cache holds
\* the demo token.
C7_Witness ==
    /\ last.op = "is_musickit_configured" /\ last.val = Bool(TRUE)
    /\ cache = Some(generate_demo_token)

\* a variable that is set, to whatever bytes
IsSet(v) == v # Unset

\* a variable that is set to valid Unicode
IsSetUnicode(v) == v \notin {Unset, NotUnicode}

\* C8 (as claimed): is_musickit_configured returns true, and from_env succeeds,
\* exactly when APPLE_TEAM_ID, APPLE_KEY_ID and at least one of
\* APPLE_PRIVATE_KEY_PATH and APPLE_PRIVATE_KEY are set.
C8_ConfiguredIffSet ==
    LET expected ==
          /\ IsSet(env.APPLE_TEAM_ID) /\ IsSet(env.APPLE_KEY_ID)
          /\ IsSet(env.APPLE_PRIVATE_KEY_PATH) \/ IsSet(env.APPLE_PRIVATE_KEY)
    IN  last.op = "is_musickit_configured" =>
          /\ last.val = Bool(expected)
          /\ from_env(env).ok = expected

\* C8 (amended): is_musickit_configured returns true, and from_env succeeds,
\* exactly when APPLE_TEAM_ID, APPLE_KEY_ID and at least one of
\* APPLE_PRIVATE_KEY_PATH and APPLE_PRIVATE_KEY are set to valid Unicode (a
\* variable holding other bytes counts as unset), whatever the key material is
\* and whether or not the file exists.
C8_ConfiguredIffSetUnicode ==
    LET expected ==
          /\ IsSetUnicode(env.APPLE_TEAM_ID) /\ IsSetUnicode(env.APPLE_KEY_ID)
          /\ IsSetUnicode(env.APPLE_PRIVATE_KEY_PATH) \/ IsSetUnicode(env.APPLE_PRIVATE_KEY)
    IN  last.op = "is_musickit_configured" =>
          /\ last.val = Bool(expected)
          /\ from_env(env).ok = expected

\* C8 witness: is_musickit_configured has returned true with only the key path
\* set as key source and no file there.
C8_Witness ==
    /\ last.op = "is_musickit_configured" /\ last.val = Bool(TRUE)
    /\ env.APPLE_PRIVATE_KEY = Unset /\ env.APPLE_PRIVATE_KEY_PATH = KeyPath
    /\ file = NoFile

\* C9: when the configuration carries inline key content, signing uses that
\* content as the key and does not read the file, so its outcome is the same
\* whatever the file system holds; without inline content the file is read.
C9_InlineKeyFirst ==
    [][\A p \in Procs : (Refresh(p) /\ from_env(env).ok) =>
         LET config == from_env(env).val
         IN  IF config.private_key_content # None
             THEN /\ reads' = reads
                  /\ last'.ok => last'.val[3].key = env.APPLE_PRIVATE_KEY
                  /\ \A f \in Files : \E n \in Nonces :
                       last' = Returned("refresh_developer_token",
                                        refresh_outcome(env, f, now, n).res, FALSE)
             ELSE /\ reads' = reads + 1
                  /\ last'.ok => last'.val[3].key = file]_vars

\* C9 witness: a refresh has succeeded with both key sources set, the file
\* holding no valid key, and no file read so far.
C9_Witness ==
    /\ last.op = "refresh_developer_token" /\ last.ok
    /\ env.APPLE_PRIVATE_KEY = ValidPem /\ env.APPLE_PRIVATE_KEY_PATH = KeyPath
    /\ file = MalformedPem /\ reads = 0 /\ signs > 0

\* C10: the claims of a token signed at this step have the team identifier as
\* issuer, the whole seconds of the clock as issued-at, and an expiry exactly
\* 180 days (15552000 seconds) after it.
C10_ClaimsLifetime ==
    [][\A p \in Procs : (Refresh(p) /\ last'.ok) =>
         LET claims == last'.val[2]
         IN  /\ claims.iss = env.APPLE_TEAM_ID
             /\ claims.iat * TicksPerSecond <= now
             /\ now < (claims.iat + 1) * TicksPerSecond
             /\ claims.exp - claims.iat = 15552000]_vars

\* C10 witness: a token was signed one second into the run and expires
\* 15552001 seconds into it.
C10_Witness ==
    /\ last.op = "refresh_developer_token" /\ last.ok
    /\ last.val[2].iat = 1 /\ last.val[2].exp = 15552001

C12_NoCallBlocks ==
    /\ [](\A p \in Procs :
            /\ (pc[p] = "idle" /\ cache # None) => ENABLED GetCheck(p)
            /\ pc[p] = "generate" => ENABLED GetGenerate(p)
            /\ pc[p] = "set" => ENABLED GetSet(p))
    /\ [][\A p \in Procs : (GetCheck(p) /\ cache # None) =>
            /\ pc'[p] = "idle"
            /\ last' = Returned("get_developer_token", Ok(cache[1]), TRUE)]_vars
    /\ \A p \in Procs : []<>(pc[p] = "idle")

\* C12 witness: a call has been answered from the cache while another thread
\* is between its cache miss and its signing.
C12_Witness ==
    /\ last.op = "get_developer_token" /\ last.hit
    /\ \E q \in Procs : pc[q] = "generate"

\* team id and key id are set, and of the two key sources only the path
PathOnly ==
    /\ from_env(env).ok
    /\ from_env(env).val.private_key_content = None

\* team id, key id and the inline key are set
InlineKey ==
    /\ from_env(env).ok
    /\ from_env(env).val.private_key_content # None

\* C13: from_env does not read the key file, and the key is checked only in
\* generate_developer_token, read before parse before encode. With only a key
\* path set, is_musickit_configured returns true whatever the file holds, a
\* refresh fails with KeyReadError when the file is missing, with InvalidKey
\* when it holds no P-256 PEM key, with EncodingError when the encoder rejects
\* the key, and get_developer_token then takes the placeholder; an inline key
\* that is no P-256 PEM key fails with InvalidKey without a read of the file.
C13_KeyCheckedOnlyInSign ==
    [][/\ \A p \in Procs : IsConfigured(p) =>
             /\ reads' = reads
             /\ PathOnly => last'.val = Bool(TRUE)
       /\ PathOnly => \A p \in Procs : Refresh(p) =>
             /\ reads' = reads + 1
             /\ file = NoFile =>
                  last'.val = generate_error(KeyReadError("io: No such file or directory"))
             /\ file = MalformedPem => last'.val = generate_error(InvalidKey("pkcs8"))
             /\ file = UnencodablePem =>
                  last'.val = generate_error(EncodingError("InvalidEcdsaKey"))
             /\ file = ValidPem => last'.ok
       /\ InlineKey => \A p \in Procs : Refresh(p) =>
             /\ reads' = reads
             /\ env.APPLE_PRIVATE_KEY = MalformedPem =>
                  last'.val = generate_error(InvalidKey("pkcs8"))
       /\ (PathOnly /\ file # ValidPem) => \A p \in Procs : GetGenerate(p) =>
             /\ reads' = reads + 1
             /\ token'[p] = Some(generate_demo_token)]_vars

\* C13 witness: is_musickit_configured has returned true in a state where only
\* a key path is set and the file is missing, after a get_developer_token that
\* tried the file and returned the placeholder.
C13_Witness ==
    /\ PathOnly /\ file = NoFile
    /\ last.op = "is_musickit_configured" /\ last.val = Bool(TRUE)
    /\ lastGet = Some(generate_demo_token) /\ cache = lastGet
    /\ reads = 1 /\ signs = 1

\* C14 (as claimed): when from_env fails, its error is ConfigMissing naming the
\* first of team identifier, key identifier and key material that is not set,
\* the last under the name "key material"; a refresh reports that error.
C14_MissingFieldKeyMaterial ==
    LET named ==
          IF ~IsSet(env.APPLE_TEAM_ID) THEN "APPLE_TEAM_ID"
          ELSE IF ~IsSet(env.APPLE_KEY_ID) THEN "APPLE_KEY_ID"
          ELSE "key material"
    IN  (last.op = "refresh_developer_token" /\ ~from_env(env).ok) =>
          /\ from_env(env).val = ConfigMissing(named)
          /\ last.val = config_error(ConfigMissing(named))

\* C14 (amended): when from_env fails, its error is ConfigMissing naming the
\* first of APPLE_TEAM_ID, APPLE_KEY_ID and the key sources that is missing, a
\* variable being missing when it is unset or not valid Unicode: a missing team
\* id is named whatever else is missing, a missing key id only when the team id
\* is there, and the key sources, under the name
\* "APPLE_PRIVATE_KEY_PATH or APPLE_PRIVATE_KEY", only when both identifiers
\* are there and both sources are missing; a refresh reports that error.
C14_MissingFieldInOrder ==
    LET named ==
          IF ~IsSetUnicode(env.APPLE_TEAM_ID) THEN "APPLE_TEAM_ID"
          ELSE IF ~IsSetUnicode(env.APPLE_KEY_ID) THEN "APPLE_KEY_ID"
          ELSE "APPLE_PRIVATE_KEY_PATH or APPLE_PRIVATE_KEY"
    IN  (last.op = "refresh_developer_token" /\ ~from_env(env).ok) =>
          /\ from_env(env).val = ConfigMissing(named)
          /\ ~last.ok /\ last.val = config_error(ConfigMissing(named))
          /\ named = "APPLE_PRIVATE_KEY_PATH or APPLE_PRIVATE_KEY" =>
               /\ ~IsSetUnicode(env.APPLE_PRIVATE_KEY_PATH)
               /\ ~IsSetUnicode(env.APPLE_PRIVATE_KEY)

\* C14 witness: a refresh has reported the key id as missing in an environment
\* where the team id is set and the key id and both key sources are unset.
C14_Witness ==
    /\ env.APPLE_TEAM_ID = "ABC123" /\ env.APPLE_KEY_ID = Unset
    /\ env.APPLE_PRIVATE_KEY_PATH = Unset /\ env.APPLE_PRIVATE_KEY = Unset
    /\ last.op = "refresh_developer_token"
    /\ last.val = <<"Configuration error: ", "Configuration missing", ": ", "APPLE_KEY_ID">>

\* both identifiers and one key source at least are set to valid Unicode
Resolvable ==
    /\ IsSetUnicode(env.APPLE_TEAM_ID) /\ IsSetUnicode(env.APPLE_KEY_ID)
    /\ IsSetUnicode(env.APPLE_PRIVATE_KEY_PATH) \/ IsSetUnicode(env.APPLE_PRIVATE_KEY)

\* C15 (as claimed): the configuration a successful from_env returns has a
\* non-empty team_id and a non-empty key_id, and so has a token signed from it.
C15_IdentifiersNonEmpty ==
    (last.op = "refresh_developer_token" /\ from_env(env).ok) =>
      /\ from_env(env).val.team_id # "" /\ from_env(env).val.key_id # ""
      /\ last.ok => (last.val[2].iss # "" /\ last.val[1].kid # "")

\* C15 (amended): from_env succeeds whenever both identifiers and a key source
\* are set, and the configuration it returns has team_id and key_id exactly as
\* the variables hold them, empty when the variable is set to the empty string;
\* a token signed from it carries them as issuer and key id.
C15_IdentifiersVerbatim ==
    (last.op = "refresh_developer_token" /\ Resolvable) =>
      /\ from_env(env).ok
      /\ from_env(env).val.team_id = env.APPLE_TEAM_ID
      /\ from_env(env).val.key_id = env.APPLE_KEY_ID
      /\ last.ok => (last.val[2].iss = env.APPLE_TEAM_ID /\ last.val[1].kid = env.APPLE_KEY_ID)

\* C15 witness: a refresh has signed a token whose issuer and key id are empty.
C15_Witness ==
    /\ last.op = "refresh_developer_token" /\ last.ok
    /\ env.APPLE_TEAM_ID = "" /\ env.APPLE_KEY_ID = ""
    /\ last.val[2].iss = "" /\ last.val[1].kid = ""

\* C16 (as claimed): whenever a get_developer_token call returns, what it
\* returns is the token the cache holds at that moment, so calls that started
\* together on an empty cache all return one and the same token.
C16_GetReturnsCached ==
    [][\A p \in Procs : GetReturns(p) =>
         /\ cache' = Some(last'.val)
         /\ lastGet # None => last'.val = lastGet[1]]_vars

\* C17: the configuration that from_env returns to a refresh has a key path or
\* inline key content, so generate_developer_token on it, whatever the file holds
\* and whatever the time, succeeds or fails with KeyReadError, InvalidKey or
\* EncodingError, never with ConfigMissing; a refresh that fails after from_env
\* succeeded reports one of those three.
C17_SignNeverConfigMissing ==
    /\ []((last.op = "refresh_developer_token" /\ from_env(env).ok) =>
            LET config == from_env(env).val
            IN  /\ config.private_key_path # None \/ config.private_key_content # None
                /\ get_private_key(config, file).key.ok
                     \/ get_private_key(config, file).key.val.kind = "KeyReadError"
                /\ \A nonce \in Nonces :
                     LET g == generate_developer_token(config, file, now, nonce).res
                     IN  g.ok \/ g.val.kind \in {"KeyReadError", "InvalidKey", "EncodingError"})
    /\ [][\A p \in Procs : (Refresh(p) /\ from_env(env).ok /\ ~last'.ok) =>
            /\ last'.val[1] = "Failed to generate token: "
            /\ last'.val[2] \in {"Failed to read private key",
                                 "Invalid private key format",
                                 "JWT encoding failed"}]_vars

\* C17 witness: a refresh has failed with KeyReadError on a configuration whose
\* only key source is the path, the inline key not being valid Unicode.
C17_Witness ==
    /\ env.APPLE_PRIVATE_KEY = NotUnicode /\ env.APPLE_PRIVATE_KEY_PATH = KeyPath
    /\ last.op = "refresh_developer_token" /\ ~last.ok
    /\ last.val = generate_error(KeyReadError("io: No such file or directory"))

====
